---- MODULE Spec2Model ----
(***************************************************************************)
(* The client-side live list of tag-repo: the result list (state.itemIds), *)
(* the item detail cache (state.itemCache), the selection                  *)
(* (state.itemIdSelection), the watchers and push-event listeners of       *)
(* src/src/lib/api/index.ts, and the backend calls they leave in flight.   *)
(*                                                                         *)
(* Positions are 0-based as in the source; TLA+ sequences are 1-based, so  *)
(* position p of itemIds is itemIds[p + 1].                                *)
(***************************************************************************)
EXTENDS Integers, Sequences, FiniteSets, Bags

\* ---------------------------------------------------------------- bounds

\* Item ids the backend ever hands out are 1..MaxId.
MaxId == 3
\* Items the repository holds when the client starts.
InitItems == 2
\* Backend calls (queries and detail fetches together) in flight at once.
MaxPending == 2
\* Backend calls issued in one run.
MaxCalls == 3
\* Revisions of one item's details (bumped by a rename or a tag change).
MaxRev == 2

Ids == 1..MaxId

\* ---------------------------------------------------------------- values

\* state.path is a string or null.
NoPath == "null"
Paths == {"P1"}

\* Query texts: "" and "a" are accepted by the backend, "(" is rejected.
Queries == {"", "a", "("}

\* state.itemCache[id] === undefined
Undefined == 0

\* state.itemIdSelection === null
NoSelection == [type |-> "null"]

\* The value a selection operation yields when it throws.
Thrown == [type |-> "thrown"]

VARIABLES
  path,             \* state.path
  query,            \* state.query
  queryIsInvalid,   \* state.queryIsInvalid
  itemIds,          \* state.itemIds
  itemCache,        \* state.itemCache: id -> details revision, or Undefined
  itemIdSelection,  \* state.itemIdSelection
  queries,          \* bag of ffi.queryItemIds calls in flight
  fetches,          \* bag of ffi.getItemDetails calls in flight
  issued,           \* number of backend calls issued so far
  dbLive,           \* backend: ids of the items of the repository
  dbGone,           \* backend: ids of deleted items (never handed out again)
  dbRev,            \* backend: id -> current details revision
  scrollTop,        \* the list's scrollTop ref (px)
  viewHeight,       \* the list's viewHeight ref (px)
  itemHeight,       \* getSpacingSize("6"): height of a row (px)
  queryText,        \* QueryBar: the text in the input (queryText ref)
  searchTimerId,    \* QueryBar: id of the pending search timer, or NoTimer
  timers            \* the runtime's pending timeouts: records [id, text]

vars == <<path, query, queryIsInvalid, itemIds, itemCache, itemIdSelection,
          queries, fetches, issued, dbLive, dbGone, dbRev,
          scrollTop, viewHeight, itemHeight,
          queryText, searchTimerId, timers>>

clientVars == <<path, query, queryIsInvalid, itemIds, itemCache, itemIdSelection>>
dbVars == <<dbLive, dbGone, dbRev>>
viewVars == <<scrollTop, viewHeight, itemHeight>>
barVars == <<queryText, searchTimerId, timers>>

\* getSpacingSize("6") = 1.5rem, at the default root font size of 16px.
DefaultItemHeight == 24

\* ------------------------------------------------------- array helpers

Elems(s) == {s[i] : i \in 1..Len(s)}

\* Array.prototype.indexOf, as a 1-based index; 0 when absent (-1 in JS).
IndexOf(s, x) ==
  IF x \in Elems(s) THEN CHOOSE i \in 1..Len(s) : s[i] = x /\ \A j \in 1..(i - 1) : s[j] # x
  ELSE 0

\* A faulty splice that fills the hole with the last element (swap-remove);
\* C10 must tell it from the real one.
SpliceOneSwapRemove(s, i) ==
  [j \in 1..(Len(s) - 1) |-> IF j = i THEN s[Len(s)] ELSE s[j]]

\* Array.prototype.splice(i, 1), i 1-based.
SpliceOne(s, i) == [j \in 1..(Len(s) - 1) |-> IF j < i THEN s[j] ELSE s[j + 1]]

\* ---------------------------------------------------- selection engine

(* getRangeMinMax: <<small, large>> of a range selection *)
getRangeMinMax(rangeSel) ==
  IF rangeSel.rootIndex < rangeSel.extendToIndex
  THEN <<rangeSel.rootIndex, rangeSel.extendToIndex>>
  ELSE <<rangeSel.extendToIndex, rangeSel.rootIndex>>

\* for (let i = from; i <= to; i++) push(i)
Span(from, to) == [i \in 1..(to - from + 1) |-> from + i - 1]

rangeToArray(rangeSel) ==
  LET mm == getRangeMinMax(rangeSel) IN Span(mm[1], mm[2])

RangeSelection(root, extendToIndex) ==
  [type |-> "range", rootIndex |-> root, extendToIndex |-> extendToIndex]

SeparateSelection(indexes, last) ==
  [type |-> "separate", indexes |-> indexes, lastToggledIndex |-> last]

selectedIndexes(selection) ==
  CASE selection.type = "null" -> <<>>
    [] selection.type = "range" -> rangeToArray(selection)
    [] selection.type = "separate" -> selection.indexes

\* A faulty contains whose interval test leaves out the lower end; C25 must
\* tell it from the real one.
containsAboveSmall(selection, index) ==
  CASE selection.type = "null" -> FALSE
    [] selection.type = "range" ->
         LET mm == getRangeMinMax(selection) IN mm[1] < index /\ index <= mm[2]
    [] selection.type = "separate" -> IndexOf(selection.indexes, index) # 0

contains(selection, index) ==
  CASE selection.type = "null" -> FALSE
    [] selection.type = "range" ->
         LET mm == getRangeMinMax(selection) IN mm[1] <= index /\ index <= mm[2]
    [] selection.type = "separate" -> IndexOf(selection.indexes, index) # 0

isolate(index) == SeparateSelection(<<index>>, index)

\* A faulty add without the "already selected" test; C16 must tell it from
\* the real one.
addUnchecked(selection, index) ==
  IF selection.type = "null" THEN isolate(index)
  ELSE SeparateSelection(Append(selectedIndexes(selection), index), index)

\* A faulty add that forgets to move lastToggledIndex; C17 must tell it from
\* the real one.
addKeepsAnchor(selection, index) ==
  IF selection.type = "null" THEN isolate(index)
  ELSE IF contains(selection, index) THEN Thrown
  ELSE SeparateSelection(Append(selectedIndexes(selection), index),
                         IF selection.type = "range" THEN selection.extendToIndex
                         ELSE selection.lastToggledIndex)

\* A faulty add that turns a gap-free result back into a range; C24 must tell
\* it from the real one.
addCollapsesToRange(selection, index) ==
  IF selection.type = "null" THEN isolate(index)
  ELSE IF contains(selection, index) THEN Thrown
  ELSE LET indexes == Append(selectedIndexes(selection), index)
           S == Elems(indexes)
           lo == CHOOSE x \in S : \A y \in S : x <= y
           hi == CHOOSE x \in S : \A y \in S : x >= y
       IN IF S = lo..hi THEN RangeSelection(lo, hi)
          ELSE SeparateSelection(indexes, index)

add(selection, index) ==
  IF selection.type = "null" THEN isolate(index)
  ELSE IF contains(selection, index) THEN Thrown
  ELSE SeparateSelection(Append(selectedIndexes(selection), index), index)

\* A faulty loop that pushes every i of small..large, present or not; C15 must
\* tell it from the real one.
RECURSIVE PushAll(_, _, _)
PushAll(indexes, i, large) ==
  IF i > large THEN indexes ELSE PushAll(Append(indexes, i), i + 1, large)

\* The loop of addTo's SEPARATE case: push every i of small..large not yet present.
RECURSIVE PushMissing(_, _, _)
PushMissing(indexes, i, large) ==
  IF i > large THEN indexes
  ELSE PushMissing(IF IndexOf(indexes, i) # 0 THEN indexes ELSE Append(indexes, i),
                   i + 1, large)

\* A faulty addTo whose loop below the range runs one step too far (i <= small);
\* C18 must tell it from the real one.
addToOneTooFar(selection, endIndex) ==
  CASE selection.type = "null" -> RangeSelection(0, endIndex)
    [] selection.type = "range" ->
         LET mm == getRangeMinMax(selection)
             indexes == rangeToArray(selection)
         IN SeparateSelection(
              IF endIndex < mm[1] THEN indexes \o Span(endIndex, mm[1])
              ELSE IF endIndex > mm[2] THEN indexes \o Span(mm[2] + 1, endIndex)
              ELSE indexes,
              endIndex)
    [] selection.type = "separate" ->
         LET startIndex == selection.lastToggledIndex
             smallIndex == IF startIndex > endIndex THEN endIndex ELSE startIndex
             largeIndex == IF startIndex > endIndex THEN startIndex ELSE endIndex
         IN SeparateSelection(PushMissing(selection.indexes, smallIndex, largeIndex),
                              endIndex)

\* A faulty addTo that forgets to move lastToggledIndex of a separate
\* selection; C19 must tell it from the real one.
addToKeepsAnchor(selection, endIndex) ==
  CASE selection.type = "null" -> RangeSelection(0, endIndex)
    [] selection.type = "range" ->
         LET mm == getRangeMinMax(selection)
             indexes == rangeToArray(selection)
         IN SeparateSelection(
              IF endIndex < mm[1] THEN indexes \o Span(endIndex, mm[1] - 1)
              ELSE IF endIndex > mm[2] THEN indexes \o Span(mm[2] + 1, endIndex)
              ELSE indexes,
              endIndex)
    [] selection.type = "separate" ->
         LET startIndex == selection.lastToggledIndex
             smallIndex == IF startIndex > endIndex THEN endIndex ELSE startIndex
             largeIndex == IF startIndex > endIndex THEN startIndex ELSE endIndex
         IN SeparateSelection(PushMissing(selection.indexes, smallIndex, largeIndex),
                              startIndex)

addTo(selection, endIndex) ==
  CASE selection.type = "null" -> RangeSelection(0, endIndex)
    [] selection.type = "range" ->
         LET mm == getRangeMinMax(selection)
             small == mm[1]
             large == mm[2]
             indexes == rangeToArray(selection)
         IN SeparateSelection(
              IF endIndex < small THEN indexes \o Span(endIndex, small - 1)
              ELSE IF endIndex > large THEN indexes \o Span(large + 1, endIndex)
              ELSE indexes,
              endIndex)
    [] selection.type = "separate" ->
         LET startIndex == selection.lastToggledIndex
             smallIndex == IF startIndex > endIndex THEN endIndex ELSE startIndex
             largeIndex == IF startIndex > endIndex THEN startIndex ELSE endIndex
         IN SeparateSelection(PushMissing(selection.indexes, smallIndex, largeIndex),
                              endIndex)

\* A faulty remove without the indexOf test: splice(-1, 1) then drops the last
\* member; C21 must tell it from the real one.
removeUnchecked(selection, index) ==
  CASE selection.type = "null" -> Thrown
    [] selection.type = "range" ->
         LET mm == getRangeMinMax(selection)
             all == rangeToArray(selection)
         IN IF ~(mm[1] <= index /\ index <= mm[2]) THEN Thrown
            ELSE SeparateSelection(SelectSeq(all, LAMBDA i : i # index), index)
    [] selection.type = "separate" ->
         LET indexOfIndex == IndexOf(selection.indexes, index)
         IN IF indexOfIndex = 0
            THEN SeparateSelection(SubSeq(selection.indexes, 1, Len(selection.indexes) - 1), index)
            ELSE SeparateSelection(SpliceOne(selection.indexes, indexOfIndex), index)

\* A faulty remove that leaves the anchor of a separate selection where it
\* was; C39 must tell it from the real one.
removeKeepsAnchor(selection, index) ==
  CASE selection.type = "null" -> Thrown
    [] selection.type = "range" ->
         LET mm == getRangeMinMax(selection)
             all == rangeToArray(selection)
         IN IF ~(mm[1] <= index /\ index <= mm[2]) THEN Thrown
            ELSE SeparateSelection(SelectSeq(all, LAMBDA i : i # index), index)
    [] selection.type = "separate" ->
         LET indexOfIndex == IndexOf(selection.indexes, index)
         IN IF indexOfIndex = 0 THEN Thrown
            ELSE SeparateSelection(SpliceOne(selection.indexes, indexOfIndex),
                                   selection.lastToggledIndex)

\* A faulty remove whose loop over a range stops before the last position
\* (i < large); C22 must tell it from the real one.
removeStopsEarly(selection, index) ==
  CASE selection.type = "null" -> Thrown
    [] selection.type = "range" ->
         LET mm == getRangeMinMax(selection)
             all == Span(mm[1], mm[2] - 1)
         IN IF ~(mm[1] <= index /\ index <= mm[2]) THEN Thrown
            ELSE SeparateSelection(SelectSeq(all, LAMBDA i : i # index), index)
    [] selection.type = "separate" ->
         LET indexOfIndex == IndexOf(selection.indexes, index)
         IN IF indexOfIndex = 0 THEN Thrown
            ELSE SeparateSelection(SpliceOne(selection.indexes, indexOfIndex), index)

remove(selection, index) ==
  CASE selection.type = "null" -> Thrown
    [] selection.type = "range" ->
         LET mm == getRangeMinMax(selection)
             all == rangeToArray(selection)
         IN IF ~(mm[1] <= index /\ index <= mm[2]) THEN Thrown
            ELSE SeparateSelection(SelectSeq(all, LAMBDA i : i # index), index)
    [] selection.type = "separate" ->
         LET indexOfIndex == IndexOf(selection.indexes, index)
         IN IF indexOfIndex = 0 THEN Thrown
            ELSE SeparateSelection(SpliceOne(selection.indexes, indexOfIndex), index)

\* A faulty extendTo that anchors a first range at the clicked row instead of
\* row 0; C20 must tell it from the real one.
extendToFromClicked(selection, index) ==
  CASE selection.type = "null" -> RangeSelection(index, index)
    [] selection.type = "range" -> RangeSelection(selection.rootIndex, index)
    [] selection.type = "separate" -> RangeSelection(selection.lastToggledIndex, index)

\* A faulty extendTo that re-anchors a range at its previous end; C23 must
\* tell it from the real one.
extendToMovesRoot(selection, index) ==
  CASE selection.type = "null" -> RangeSelection(0, index)
    [] selection.type = "range" -> RangeSelection(selection.extendToIndex, index)
    [] selection.type = "separate" -> RangeSelection(selection.lastToggledIndex, index)

extendTo(selection, index) ==
  CASE selection.type = "null" -> RangeSelection(0, index)
    [] selection.type = "range" -> RangeSelection(selection.rootIndex, index)
    [] selection.type = "separate" -> RangeSelection(selection.lastToggledIndex, index)

clear == NoSelection

Min2(a, b) == IF a < b THEN a ELSE b
Max2(a, b) == IF a > b THEN a ELSE b

\* The "focused" position the keyboard operations step from.
Focus(selection) ==
  IF selection.type = "range" THEN selection.extendToIndex ELSE selection.lastToggledIndex

\* A faulty isolateDown without the Math.min against the last row; C26 must
\* tell it from the real one.
isolateDownUnclamped(selection, length) ==
  IF length = 0 THEN selection
  ELSE IF selection.type = "null" THEN isolate(0)
  ELSE isolate(Focus(selection) + 1)

isolateDown(selection, length) ==
  IF length = 0 THEN selection
  ELSE IF selection.type = "null" THEN isolate(0)
  ELSE isolate(Min2(Focus(selection) + 1, length - 1))

isolateUp(selection, length) ==
  IF length = 0 THEN selection
  ELSE IF selection.type = "null" THEN isolate(length - 1)
  ELSE isolate(Max2(Focus(selection) - 1, 0))

\* A faulty extendDown that has no branch of its own for "no selection" and
\* lets extendTo start a range; C28 must tell it from the real one.
extendDownFromNothing(selection, length) ==
  IF length = 0 THEN selection
  ELSE IF selection.type = "null" THEN extendTo(selection, 0)
  ELSE extendTo(selection, Min2(Focus(selection) + 1, length - 1))

extendDown(selection, length) ==
  IF length = 0 THEN selection
  ELSE IF selection.type = "null" THEN isolate(0)
  ELSE extendTo(selection, Min2(Focus(selection) + 1, length - 1))

extendUp(selection, length) ==
  IF length = 0 THEN selection
  ELSE IF selection.type = "null" THEN isolate(length - 1)
  ELSE extendTo(selection, Max2(Focus(selection) - 1, 0))

\* selection.selectAll(): the selection manager has no such member, so the call
\* throws a TypeError.
selectAll == Thrown

\* A throwing operation leaves state.itemIdSelection as it was.
OrUnchanged(result, selection) == IF result = Thrown THEN selection ELSE result

\* --------------------------------------------------------------- backend

\* The backend rejects a malformed filter text.
QueryIsMalformed(text) == text = "("

\* Whether the item matches the filter text.
Matches(text, id) == text = "" \/ (text = "a" /\ id # 2)

\* The backend orders a result by path, not by id: here even ids come first.
SortKey(id) == IF id % 2 = 0 THEN id ELSE id + MaxId

RECURSIVE OrderedBy(_)
OrderedBy(S) ==
  IF S = {} THEN <<>>
  ELSE LET m == CHOOSE x \in S : \A y \in S : SortKey(x) <= SortKey(y)
       IN <<m>> \o OrderedBy(S \ {m})

\* What query_item_ids returns for an accepted text over the items `live`.
BackendResult(text, live) == OrderedBy({id \in live : Matches(text, id)})

\* ------------------------------------------------------ calls in flight

\* ffi.queryItemIds(text) issued by handler `by`; st is "sent" until the backend
\* has computed the answer, then "ok" (with ids) or "err".
QueryCall(by, text) == [by |-> by, text |-> text, st |-> "sent", ids |-> <<>>]

\* ffi.getItemDetails(id) issued by requestItemToBeFetched; `stale` says that
\* state.itemCache was replaced since: the assignment target of
\* "state.itemCache[id] = await ..." is the object read before the await.
FetchCall(id) == [id |-> id, st |-> "sent", rev |-> Undefined, stale |-> FALSE]

Pending == BagCardinality(queries) + BagCardinality(fetches)
CanCall == Pending < MaxPending /\ issued < MaxCalls

One(r) == SetToBag({r})

\* ------------------------------------------------------------ item cache

EmptyCache == [id \in Ids |-> Undefined]

(* clearItemCache: state.itemCache = {} *)
clearItemCache == EmptyCache

(* setCachedItem: state.itemCache[id] = item *)
\* A faulty setCachedItem that replaces the whole cache by the one entry; C12
\* must tell it from the real one.
setCachedItemAlone(cache, id, item) == [EmptyCache EXCEPT ![id] = item]

setCachedItem(cache, id, item) == [cache EXCEPT ![id] = item]

\* Fetches in flight keep writing to the object clearItemCache dropped.
MarkStale(B) ==
  LET S == BagToSet(B)
      T == {[x EXCEPT !.stale = TRUE] : x \in S}
      Count(x) == IF x \in S THEN B[x] ELSE 0
  IN [r \in T |-> Count(r) + Count([r EXCEPT !.stale = FALSE])]

\* ------------------------------------------- query bar (QueryBar.vue)

\* searchTimerId === null
NoTimer == 0

\* setTimeout hands out an id no pending timeout has.
NewTimerId(pending) ==
  CHOOSE id \in 1..(Cardinality(pending) + 1) :
    /\ id \notin {t.id : t \in pending}
    /\ \A other \in 1..(id - 1) : other \in {t.id : t \in pending}

\* clearTimeout(id)
clearTimeout(pending, id) == {t \in pending : t.id # id}

\* A faulty search watcher that never cancels the pending timer; C32 must tell
\* it from the real one.
searchWatchKeepsTimer(bar, text) ==
  LET id == NewTimerId(bar.timers)
  IN [queryText |-> text,
      searchTimerId |-> id,
      timers |-> bar.timers \cup {[id |-> id, text |-> text]}]

(* watch(queryText): cancel the pending search timer, if any, and start a new
   one that carries the new text.  bar is the query bar's state, the result
   is its state afterwards. *)
searchWatch(bar, text) ==
  LET id == NewTimerId(bar.timers)
      kept == IF bar.searchTimerId # NoTimer
              THEN clearTimeout(bar.timers, bar.searchTimerId)
              ELSE bar.timers
  IN [queryText |-> text,
      searchTimerId |-> id,
      timers |-> kept \cup {[id |-> id, text |-> text]}]

(* watch(() => state.query) of the query bar: the input shows the new query;
   when that changes the text, the search watcher runs. *)
queryWatchOfBar(bar, newQuery) ==
  IF newQuery = bar.queryText THEN bar ELSE searchWatch(bar, newQuery)

Bar == [queryText |-> queryText, searchTimerId |-> searchTimerId, timers |-> timers]

BarBecomes(bar) ==
  /\ queryText' = bar.queryText
  /\ searchTimerId' = bar.searchTimerId
  /\ timers' = bar.timers

\* ------------------------------------------------------------------ Init

Init ==
  /\ path = NoPath
  /\ query = ""
  /\ queryIsInvalid = FALSE
  /\ itemIds = <<>>
  /\ itemCache = EmptyCache
  /\ itemIdSelection = NoSelection
  /\ queries = EmptyBag
  /\ fetches = EmptyBag
  /\ issued = 0
  /\ dbLive = 1..InitItems
  /\ dbGone = {}
  /\ dbRev = [id \in Ids |-> 1]
  /\ scrollTop = 0
  /\ viewHeight = 0
  /\ itemHeight = DefaultItemHeight
  /\ queryText = ""
  /\ searchTimerId = NoTimer
  /\ timers = {}

\* ------------------------------------------- watchers (index.ts 190-226)

(* setQuery + watch(() => state.query): the watchers run only when the text
   changes; the one of index.ts issues queryItemIds(state.query), the one of
   the query bar puts the text into the input. *)
SetQuery(text) ==
  /\ text # query
  /\ CanCall
  /\ query' = text
  /\ queries' = queries (+) One(QueryCall("queryWatch", text))
  /\ issued' = issued + 1
  /\ BarBecomes(queryWatchOfBar(Bar, text))
  /\ UNCHANGED <<path, queryIsInvalid, itemIds, itemCache, itemIdSelection, fetches>>
  /\ UNCHANGED dbVars
  /\ UNCHANGED viewVars

\* A faulty path handler that keeps the old list when the repository is
\* closed; C6 must tell it from the real one.
PathChangedKeepsList(newPath) ==
  /\ path' = newPath
  /\ itemIdSelection' = NoSelection
  /\ IF newPath = path \/ newPath = NoPath
     THEN UNCHANGED <<itemIds, queries, issued>>
     ELSE /\ Pending < MaxPending /\ issued < MaxCalls
          /\ queries' = queries (+) SetToBag({[by |-> "pathWatch", text |-> query, st |-> "sent", ids |-> <<>>]})
          /\ issued' = issued + 1
          /\ UNCHANGED itemIds
  /\ UNCHANGED <<query, queryIsInvalid, itemCache, fetches>>
  /\ UNCHANGED <<dbLive, dbGone, dbRev>>
  /\ UNCHANGED viewVars
  /\ UNCHANGED barVars

(* listen("repo-path-changed") / closeRepo, then watch(() => state.path): the
   listener assigns state.path and clears the selection; the watcher (only when
   the path changed) clears the selection and either empties the list (null)
   or issues queryItemIds(state.query). *)
PathChanged(newPath) ==
  /\ path' = newPath
  /\ itemIdSelection' = clear
  /\ IF newPath = path
     THEN UNCHANGED <<itemIds, queries, issued>>
     ELSE IF newPath = NoPath
     THEN /\ itemIds' = <<>>
          /\ UNCHANGED <<queries, issued>>
     ELSE /\ CanCall
          /\ queries' = queries (+) One(QueryCall("pathWatch", query))
          /\ issued' = issued + 1
          /\ UNCHANGED itemIds
  /\ UNCHANGED <<query, queryIsInvalid, itemCache, fetches>>
  /\ UNCHANGED dbVars
  /\ UNCHANGED viewVars
  /\ UNCHANGED barVars

\* ------------------------------------- push events (index.ts 111-175)

(* listen("item-added"): the backend has a new item; re-run the query. *)
ItemAdded ==
  /\ CanCall
  /\ \E id \in Ids \ (dbLive \cup dbGone) :
       /\ \A other \in Ids \ (dbLive \cup dbGone) : id <= other
       /\ dbLive' = dbLive \cup {id}
  /\ queries' = queries (+) One(QueryCall("itemAdded", query))
  /\ issued' = issued + 1
  /\ UNCHANGED <<clientVars, fetches, dbGone, dbRev>>
  /\ UNCHANGED viewVars
  /\ UNCHANGED barVars

(* listen("item-removed"): splice the id out of the list, then
   selection.remove(evt.id) inside try/catch.  evt.id is the event's own
   identifier, not the item's id and not a position: any number. *)
ItemRemoved(id, evtId) ==
  /\ id \in dbLive
  /\ dbLive' = dbLive \ {id}
  /\ dbGone' = dbGone \cup {id}
  /\ LET index == IndexOf(itemIds, id)
     IN itemIds' = IF index # 0 THEN SpliceOne(itemIds, index) ELSE itemIds
  /\ itemIdSelection' = OrUnchanged(remove(itemIdSelection, evtId), itemIdSelection)
  /\ UNCHANGED <<path, query, queryIsInvalid, itemCache, queries, fetches, issued, dbRev>>
  /\ UNCHANGED viewVars
  /\ UNCHANGED barVars

(* listen("item-renamed"), listen("item-tags-added"), listen("item-tags-removed"):
   the backend has new details of the item; put them into the cache. *)
ItemDetailsChanged(id) ==
  /\ id \in dbLive
  /\ dbRev[id] < MaxRev
  /\ dbRev' = [dbRev EXCEPT ![id] = dbRev[id] + 1]
  /\ itemCache' = setCachedItem(itemCache, id, dbRev[id] + 1)
  /\ UNCHANGED <<path, query, queryIsInvalid, itemIds, itemIdSelection,
                 queries, fetches, issued, dbLive, dbGone>>
  /\ UNCHANGED viewVars
  /\ UNCHANGED barVars

\* for (const itemDetail of evt.payload) setCachedItem(itemDetail.item.id, itemDetail)
RECURSIVE setCachedItems(_, _, _)
setCachedItems(cache, ids, revs) ==
  IF ids = {} THEN cache
  ELSE LET id == CHOOSE x \in ids : \A y \in ids : x <= y
       IN setCachedItems(setCachedItem(cache, id, revs[id]), ids \ {id}, revs)

(* listen("batch-item-tags-added"), listen("batch-item-tags-removed"): the
   backend has new details of several items; put each into the cache. *)
BatchItemDetailsChanged(ids) ==
  /\ Cardinality(ids) >= 2
  /\ ids \subseteq dbLive
  /\ \A id \in ids : dbRev[id] < MaxRev
  /\ dbRev' = [id \in DOMAIN dbRev |-> IF id \in ids THEN dbRev[id] + 1 ELSE dbRev[id]]
  /\ itemCache' = setCachedItems(itemCache, ids, dbRev')
  /\ UNCHANGED <<path, query, queryIsInvalid, itemIds, itemIdSelection,
                 queries, fetches, issued, dbLive, dbGone>>
  /\ UNCHANGED viewVars
  /\ UNCHANGED barVars

(* listen("repo-resynced"): re-run the query. *)
Resynced ==
  /\ CanCall
  /\ queries' = queries (+) One(QueryCall("resynced", query))
  /\ issued' = issued + 1
  /\ UNCHANGED <<clientVars, fetches>>
  /\ UNCHANGED dbVars
  /\ UNCHANGED viewVars
  /\ UNCHANGED barVars

\* ------------------------------------ completion of queryItemIds calls

\* The backend computes the answer of a call in flight.
QueryComputed(call) ==
  /\ call.st = "sent"
  /\ LET answer == IF QueryIsMalformed(call.text)
                   THEN [call EXCEPT !.st = "err"]
                   ELSE [call EXCEPT !.st = "ok", !.ids = BackendResult(call.text, dbLive)]
     IN queries' = (queries (-) One(call)) (+) One(answer)
  /\ UNCHANGED <<clientVars, fetches, issued>>
  /\ UNCHANGED dbVars
  /\ UNCHANGED viewVars
  /\ UNCHANGED barVars

\* A faulty query continuation that keeps the selection; C4 must tell it from
\* the real one.
ApplyQueryWatchKeepsSelection(call) ==
  /\ itemCache' = clearItemCache
  /\ fetches' = MarkStale(fetches)
  /\ itemIds' = call.ids
  /\ UNCHANGED itemIdSelection

\* The continuation after "await queryItemIds(state.query)" of each handler.
ApplyQueryWatch(call) ==
  /\ itemIdSelection' = clear
  /\ itemCache' = clearItemCache
  /\ fetches' = MarkStale(fetches)
  /\ itemIds' = call.ids

ApplyPathWatch(call) ==
  /\ itemCache' = clearItemCache
  /\ fetches' = MarkStale(fetches)
  /\ itemIds' = call.ids
  /\ UNCHANGED itemIdSelection

\* A faulty item-added continuation that also drops the cache; C9 must tell it
\* from the real one.
ApplyItemAddedClearsCache(call) ==
  /\ itemIds' = call.ids
  /\ itemCache' = clearItemCache
  /\ fetches' = MarkStale(fetches)
  /\ UNCHANGED itemIdSelection

ApplyItemAdded(call) ==
  /\ itemIds' = call.ids
  /\ UNCHANGED <<itemCache, fetches, itemIdSelection>>

\* A faulty repo-resynced continuation that keeps the selection; C13 must tell
\* it from the real one.
ApplyResyncedKeepsSelection(call) ==
  /\ itemCache' = clearItemCache
  /\ fetches' = MarkStale(fetches)
  /\ itemIds' = call.ids
  /\ UNCHANGED itemIdSelection

ApplyResynced(call) ==
  /\ itemCache' = clearItemCache
  /\ fetches' = MarkStale(fetches)
  /\ itemIds' = call.ids
  /\ itemIdSelection' = clear

(* queryItemIds, try branch: the flag is lowered and the ids are returned to
   the handler that awaits them. *)
QueryResolved(call) ==
  /\ call.st = "ok"
  /\ queries' = queries (-) One(call)
  /\ queryIsInvalid' = FALSE
  /\ CASE call.by = "queryWatch" -> ApplyQueryWatch(call)
       [] call.by = "pathWatch" -> ApplyPathWatch(call)
       [] call.by = "itemAdded" -> ApplyItemAdded(call)
       [] call.by = "resynced" -> ApplyResynced(call)
  /\ UNCHANGED <<path, query, issued>>
  /\ UNCHANGED dbVars
  /\ UNCHANGED viewVars
  /\ UNCHANGED barVars

\* A faulty catch branch that also drops the selection; C5 must tell it from
\* the real one.
QueryRejectedClearsSelection(call) ==
  /\ call.st = "err"
  /\ queries' = queries (-) One(call)
  /\ queryIsInvalid' = TRUE
  /\ itemIdSelection' = clear
  /\ UNCHANGED <<path, query, itemIds, itemCache, fetches, issued>>
  /\ UNCHANGED dbVars
  /\ UNCHANGED viewVars
  /\ UNCHANGED barVars

(* queryItemIds, catch branch: the flag is raised and the error rethrown; the
   handler's continuation never runs. *)
QueryRejected(call) ==
  /\ call.st = "err"
  /\ queries' = queries (-) One(call)
  /\ queryIsInvalid' = TRUE
  /\ UNCHANGED <<path, query, itemIds, itemCache, itemIdSelection, fetches, issued>>
  /\ UNCHANGED dbVars
  /\ UNCHANGED viewVars
  /\ UNCHANGED barVars

\* ------------------------------------------ item details (items.ts 27-31)

(* requestItemToBeFetched(id), called by a row of the list (ItemRow setup and
   its cache watcher) or by the properties panel for a selected item: issues
   ffi.getItemDetails(id) when the cache has no entry. *)
RequestItem(id) ==
  /\ id \in Elems(itemIds)
  /\ itemCache[id] = Undefined
  /\ CanCall
  /\ fetches' = fetches (+) One(FetchCall(id))
  /\ issued' = issued + 1
  /\ UNCHANGED <<clientVars, queries>>
  /\ UNCHANGED dbVars
  /\ UNCHANGED viewVars
  /\ UNCHANGED barVars

\* The backend reads the item's details (an error when the item is gone).
FetchComputed(call) ==
  /\ call.st = "sent"
  /\ LET answer == IF call.id \in dbLive
                   THEN [call EXCEPT !.st = "ok", !.rev = dbRev[call.id]]
                   ELSE [call EXCEPT !.st = "err"]
     IN fetches' = (fetches (-) One(call)) (+) One(answer)
  /\ UNCHANGED <<clientVars, queries, issued>>
  /\ UNCHANGED dbVars
  /\ UNCHANGED viewVars
  /\ UNCHANGED barVars

\* A faulty completion that loses the details it brought; C40 must tell it
\* from the real one.
FetchResolvedLosesResult(call) ==
  /\ call.st = "ok"
  /\ fetches' = fetches (-) SetToBag({call})
  /\ UNCHANGED <<path, query, queryIsInvalid, itemIds, itemCache, itemIdSelection, queries, issued>>
  /\ UNCHANGED <<dbLive, dbGone, dbRev>>
  /\ UNCHANGED <<scrollTop, viewHeight, itemHeight>>
  /\ UNCHANGED <<queryText, searchTimerId, timers>>

\* A faulty completion that writes into whatever cache is current; C37 must
\* tell it from the real one.
FetchResolvedIntoCurrent(call) ==
  /\ call.st = "ok"
  /\ fetches' = fetches (-) SetToBag({call})
  /\ itemCache' = [itemCache EXCEPT ![call.id] = call.rev]
  /\ UNCHANGED <<path, query, queryIsInvalid, itemIds, itemIdSelection, queries, issued>>
  /\ UNCHANGED <<dbLive, dbGone, dbRev>>
  /\ UNCHANGED <<scrollTop, viewHeight, itemHeight>>
  /\ UNCHANGED <<queryText, searchTimerId, timers>>

(* "state.itemCache[id] = await ffi.getItemDetails(id)" completes: the details
   go into the cache object the call started with. *)
FetchResolved(call) ==
  /\ call.st = "ok"
  /\ fetches' = fetches (-) One(call)
  /\ itemCache' = IF call.stale THEN itemCache
                  ELSE setCachedItem(itemCache, call.id, call.rev)
  /\ UNCHANGED <<path, query, queryIsInvalid, itemIds, itemIdSelection, queries, issued>>
  /\ UNCHANGED dbVars
  /\ UNCHANGED viewVars
  /\ UNCHANGED barVars

FetchRejected(call) ==
  /\ call.st = "err"
  /\ fetches' = fetches (-) One(call)
  /\ UNCHANGED <<clientVars, queries, issued>>
  /\ UNCHANGED dbVars
  /\ UNCHANGED viewVars
  /\ UNCHANGED barVars

\* --------------------------------------------- the user and the selection

Positions == 0..(Len(itemIds) - 1)

\* A faulty selection operation that also drops the cache; C33 must tell it
\* from the real one.
SelectionOnlyDropsCache(newSelection) ==
  /\ itemIdSelection' = newSelection
  /\ itemCache' = [id \in DOMAIN itemCache |-> Undefined]
  /\ UNCHANGED <<path, query, queryIsInvalid, itemIds, queries, fetches, issued>>
  /\ UNCHANGED <<dbLive, dbGone, dbRev>>
  /\ UNCHANGED <<scrollTop, viewHeight, itemHeight>>
  /\ UNCHANGED <<queryText, searchTimerId, timers>>

(* Every operation of the selection manager assigns state.itemIdSelection and
   nothing else. *)
SelectionOnly(newSelection) ==
  /\ itemIdSelection' = newSelection
  /\ UNCHANGED <<path, query, queryIsInvalid, itemIds, itemCache, queries, fetches, issued>>
  /\ UNCHANGED dbVars
  /\ UNCHANGED viewVars
  /\ UNCHANGED barVars

(* ItemRow onItemMouseDown on the row at position listIndex *)
ClickPlain(listIndex) ==
  /\ listIndex \in Positions
  /\ SelectionOnly(isolate(listIndex))

ClickShift(listIndex) ==
  /\ listIndex \in Positions
  /\ SelectionOnly(extendTo(itemIdSelection, listIndex))

ClickCtrl(listIndex) ==
  /\ listIndex \in Positions
  /\ SelectionOnly(IF contains(itemIdSelection, listIndex)
                   THEN OrUnchanged(remove(itemIdSelection, listIndex), itemIdSelection)
                   ELSE OrUnchanged(add(itemIdSelection, listIndex), itemIdSelection))

ClickShiftCtrl(listIndex) ==
  /\ listIndex \in Positions
  /\ SelectionOnly(addTo(itemIdSelection, listIndex))

(* keydown handlers of the list *)
KeyDown == SelectionOnly(isolateDown(itemIdSelection, Len(itemIds)))
KeyUp == SelectionOnly(isolateUp(itemIdSelection, Len(itemIds)))
KeyShiftDown == SelectionOnly(extendDown(itemIdSelection, Len(itemIds)))
KeyShiftUp == SelectionOnly(extendUp(itemIdSelection, Len(itemIds)))

(* the title bar's "clear selection" *)
ClearSelection == SelectionOnly(clear)

(* selection.add(index) and selection.remove(index) called directly: a call
   that throws leaves state.itemIdSelection as it was. *)
Add(index) ==
  /\ index \in Positions
  /\ SelectionOnly(OrUnchanged(add(itemIdSelection, index), itemIdSelection))

Remove(index) ==
  /\ index \in Positions
  /\ SelectionOnly(OrUnchanged(remove(itemIdSelection, index), itemIdSelection))

(* @keydown of the list, ctrl+a: nothing on an empty list, else
   selection.selectAll(). *)
KeyCtrlA ==
  /\ Len(itemIds) # 0
  /\ SelectionOnly(OrUnchanged(selectAll, itemIdSelection))

\* ------------------------------------------------------------------ Next

EvtIds == 0..MaxId

UserSelects ==
  \/ \E p \in 0..(MaxId - 1) : ClickPlain(p)
  \/ \E p \in 0..(MaxId - 1) : ClickShift(p)
  \/ \E p \in 0..(MaxId - 1) : ClickCtrl(p)
  \/ \E p \in 0..(MaxId - 1) : ClickShiftCtrl(p)
  \/ KeyDown
  \/ KeyUp
  \/ KeyShiftDown
  \/ KeyShiftUp
  \/ ClearSelection

QueryCompletes ==
  \/ \E call \in BagToSet(queries) : QueryComputed(call)
  \/ \E call \in BagToSet(queries) : QueryResolved(call)
  \/ \E call \in BagToSet(queries) : QueryRejected(call)

FetchSteps ==
  \/ \E id \in Ids : RequestItem(id)
  \/ \E call \in BagToSet(fetches) : FetchComputed(call)
  \/ \E call \in BagToSet(fetches) : FetchResolved(call)
  \/ \E call \in BagToSet(fetches) : FetchRejected(call)

\* The whole engine.
Next ==
  \/ \E text \in Queries : SetQuery(text)
  \/ \E p \in Paths \cup {NoPath} : PathChanged(p)
  \/ ItemAdded
  \/ \E id \in Ids, evtId \in EvtIds : ItemRemoved(id, evtId)
  \/ \E id \in Ids : ItemDetailsChanged(id)
  \/ Resynced
  \/ QueryCompletes
  \/ FetchSteps
  \/ UserSelects

Spec == Init /\ [][Next]_vars

\* The result list controller alone: the watchers, the push events that touch
\* the list, and the completion of the queries.  Nothing here reads the cache,
\* and the selection is touched only by the handlers themselves.
NextList ==
  \/ \E text \in Queries : SetQuery(text)
  \/ \E p \in Paths \cup {NoPath} : PathChanged(p)
  \/ ItemAdded
  \/ \E id \in Ids, evtId \in EvtIds : ItemRemoved(id, evtId)
  \/ Resynced
  \/ QueryCompletes

SpecList == Init /\ [][NextList]_vars

\* A query cycle with the user at work: the watchers, the completion of the
\* queries, the detail fetches of the rows, and every selection operation.
\* No item is deleted here, so no detail fetch is rejected.
NextQuery ==
  \/ \E text \in Queries : SetQuery(text)
  \/ \E p \in Paths \cup {NoPath} : PathChanged(p)
  \/ QueryCompletes
  \/ \E id \in Ids : RequestItem(id)
  \/ \E call \in BagToSet(fetches) : FetchComputed(call)
  \/ \E call \in BagToSet(fetches) : FetchResolved(call)
  \/ UserSelects

SpecQuery == Init /\ [][NextQuery]_vars

\* The list and the cache under push events, the filter text left alone: the
\* path watcher, item-added and item-removed, the completion of the queries
\* (the text "" is never rejected) and the detail fetches.
NextCache ==
  \/ \E p \in Paths \cup {NoPath} : PathChanged(p)
  \/ ItemAdded
  \/ \E id \in Ids, evtId \in EvtIds : ItemRemoved(id, evtId)
  \/ \E call \in BagToSet(queries) : QueryComputed(call)
  \/ \E call \in BagToSet(queries) : QueryResolved(call)
  \/ FetchSteps

SpecCache == Init /\ [][NextCache]_vars

\* item-removed against a selection made with the keyboard: the path watcher,
\* item-added and item-removed and the completion of their queries (the text ""
\* is never rejected).
NextRemove ==
  \/ \E p \in Paths \cup {NoPath} : PathChanged(p)
  \/ ItemAdded
  \/ \E id \in Ids, evtId \in EvtIds : ItemRemoved(id, evtId)
  \/ \E call \in BagToSet(queries) : QueryComputed(call)
  \/ \E call \in BagToSet(queries) : QueryResolved(call)
  \/ KeyDown
  \/ KeyShiftDown

SpecRemove == Init /\ [][NextRemove]_vars

\* The detail events against a selection made with the keyboard: the path
\* watcher and the completion of its query, item-renamed and the tag events,
\* single and batch.
NextDetails ==
  \/ \E p \in Paths \cup {NoPath} : PathChanged(p)
  \/ \E id \in Ids : ItemDetailsChanged(id)
  \/ \E ids \in SUBSET Ids : BatchItemDetailsChanged(ids)
  \/ \E call \in BagToSet(queries) : QueryComputed(call)
  \/ \E call \in BagToSet(queries) : QueryResolved(call)
  \/ KeyDown
  \/ KeyShiftDown

SpecDetails == Init /\ [][NextDetails]_vars

\* repo-resynced against a list, a cache and a selection that are not empty:
\* the path watcher, item-added, item-renamed, repo-resynced, the completion of
\* the queries, and the Down key.
NextResync ==
  \/ \E p \in Paths \cup {NoPath} : PathChanged(p)
  \/ ItemAdded
  \/ \E id \in Ids : ItemDetailsChanged(id)
  \/ Resynced
  \/ \E call \in BagToSet(queries) : QueryComputed(call)
  \/ \E call \in BagToSet(queries) : QueryResolved(call)
  \/ KeyDown

SpecResync == Init /\ [][NextResync]_vars

\* The detail events against the detail fetches of the rows: the path watcher
\* and the completion of its query, item-renamed and the tag events, and the
\* fetches (no item is deleted, so none is rejected).
NextFetch ==
  \/ \E p \in Paths \cup {NoPath} : PathChanged(p)
  \/ \E id \in Ids : ItemDetailsChanged(id)
  \/ \E call \in BagToSet(queries) : QueryComputed(call)
  \/ \E call \in BagToSet(queries) : QueryResolved(call)
  \/ \E id \in Ids : RequestItem(id)
  \/ \E call \in BagToSet(fetches) : FetchComputed(call)
  \/ \E call \in BagToSet(fetches) : FetchResolved(call)

SpecFetch == Init /\ [][NextFetch]_vars

\* ------------------------------------- the rows of the list (ItemRow.vue)

\* A getItemDetails(id) call is in flight that will write into the cache of now.
LiveFetch(id) == \E call \in BagToSet(fetches) : call.id = id /\ ~call.stale

(* The row of the item: requestItemToBeFetched(props.id) when the row is
   mounted, and again from its watcher when state.itemCache was replaced and
   has no entry for the item.  A row has one request of its own going at a
   time, so its requests are not counted against the calls of one run. *)
RowRequests(id) ==
  /\ id \in Elems(itemIds)
  /\ itemCache[id] = Undefined
  /\ ~LiveFetch(id)
  /\ Pending < MaxPending
  /\ fetches' = fetches (+) One(FetchCall(id))
  /\ UNCHANGED <<clientVars, queries, issued>>
  /\ UNCHANGED dbVars
  /\ UNCHANGED viewVars
  /\ UNCHANGED barVars

(* A repository is open and its n items are listed; no row has asked for its
   details yet. *)
InitRows ==
  /\ path = "P1"
  /\ query = ""
  /\ queryIsInvalid = FALSE
  /\ \E n \in 0..MaxId :
       /\ itemIds = BackendResult("", 1..n)
       /\ dbLive = 1..n
  /\ itemCache = EmptyCache
  /\ dbRev = [id \in Ids |-> 1]
  /\ itemIdSelection = NoSelection
  /\ queries = EmptyBag
  /\ fetches = EmptyBag
  /\ issued = 0
  /\ dbGone = {}
  /\ scrollTop = 0
  /\ viewHeight = 0
  /\ itemHeight = DefaultItemHeight
  /\ queryText = ""
  /\ searchTimerId = NoTimer
  /\ timers = {}

\* The rows under cache clears: repo-resynced and its query (each one that
\* resolves clears the cache), and the rows' requests.
NextRows ==
  \/ Resynced
  \/ \E call \in BagToSet(queries) : QueryComputed(call)
  \/ \E call \in BagToSet(queries) : QueryResolved(call)
  \/ \E id \in Ids : RowRequests(id)
  \/ \E call \in BagToSet(fetches) : FetchComputed(call)
  \/ \E call \in BagToSet(fetches) : FetchResolved(call)

(* Every backend call is answered and every answer reaches its handler; a row
   that has to ask for its details does so (it may have to wait for a call in
   flight to finish, which is a limit of this model only). *)
RowsFairness ==
  /\ WF_vars(\E call \in BagToSet(queries) : QueryComputed(call))
  /\ WF_vars(\E call \in BagToSet(queries) : QueryResolved(call))
  /\ WF_vars(\E call \in BagToSet(fetches) : FetchComputed(call))
  /\ WF_vars(\E call \in BagToSet(fetches) : FetchResolved(call))
  /\ \A id \in Ids : SF_vars(RowRequests(id))

SpecRows == InitRows /\ [][NextRows]_vars /\ RowsFairness

\* Rows of the list in the specification of the selection engine alone.
MaxRows == 5

(* The selection engine over a list that stays as it is: a repository is open
   and its n items are listed, nothing is cached or in flight. The engine
   reads the length of the list only, never the ids in it. *)
InitEngine ==
  /\ path = "P1"
  /\ query = ""
  /\ queryIsInvalid = FALSE
  /\ \E n \in 0..MaxRows :
       /\ itemIds = [i \in 1..n |-> i]
       /\ dbLive = 1..n
       /\ itemCache = [id \in Ids \cup (1..n) |-> Undefined]
       /\ dbRev = [id \in Ids \cup (1..n) |-> 1]
  /\ itemIdSelection = NoSelection
  /\ queries = EmptyBag
  /\ fetches = EmptyBag
  /\ issued = 0
  /\ dbGone = {}
  /\ scrollTop = 0
  /\ viewHeight = 0
  /\ itemHeight = DefaultItemHeight
  /\ queryText = ""
  /\ searchTimerId = NoTimer
  /\ timers = {}

\* isolate, extendTo and addTo are the plain, shift and shift+ctrl clicks.
NextEngine ==
  \/ \E p \in 0..(MaxRows - 1) : ClickPlain(p)
  \/ \E p \in 0..(MaxRows - 1) : Add(p)
  \/ \E p \in 0..(MaxRows - 1) : Remove(p)
  \/ \E p \in 0..(MaxRows - 1) : ClickShift(p)
  \/ \E p \in 0..(MaxRows - 1) : ClickShiftCtrl(p)
  \/ ClearSelection

SpecEngine == InitEngine /\ [][NextEngine]_vars

\* The selection engine under the mouse and the keyboard, over a list that
\* stays as it is.
NextKeys ==
  \/ NextEngine
  \/ KeyDown
  \/ KeyUp
  \/ KeyShiftDown
  \/ KeyShiftUp
  \/ KeyCtrlA

SpecKeys == InitEngine /\ [][NextKeys]_vars

\* ------------------------------------- query bar: the debounced search

(* The user edits the input (v-model): queryText changes and its watcher runs. *)
InputText(text) ==
  /\ text # queryText
  /\ BarBecomes(searchWatch(Bar, text))
  /\ UNCHANGED <<clientVars, queries, fetches, issued>>
  /\ UNCHANGED dbVars
  /\ UNCHANGED viewVars

(* The timeout's callback, 300 ms after it was set: searchTimerId = null, then
   setQuery(text) with the text the timer was started with; when that changes
   state.query its watchers run as in SetQuery. *)
SearchTimerFires(timer) ==
  /\ timer \in timers
  /\ LET fired == [queryText |-> queryText,
                   searchTimerId |-> NoTimer,
                   timers |-> timers \ {timer}]
     IN IF timer.text = query
        THEN /\ BarBecomes(fired)
             /\ UNCHANGED <<query, queries, issued>>
        ELSE /\ CanCall
             /\ query' = timer.text
             /\ queries' = queries (+) One(QueryCall("queryWatch", timer.text))
             /\ issued' = issued + 1
             /\ BarBecomes(queryWatchOfBar(fired, timer.text))
  /\ UNCHANGED <<path, queryIsInvalid, itemIds, itemCache, itemIdSelection, fetches>>
  /\ UNCHANGED dbVars
  /\ UNCHANGED viewVars

\* The query bar at work: typing, the search timer, setQuery from the folder
\* tree, and the completion of the queries.
NextBar ==
  \/ \E text \in Queries : InputText(text)
  \/ \E timer \in timers : SearchTimerFires(timer)
  \/ \E text \in Queries : SetQuery(text)
  \/ \E p \in Paths : PathChanged(p)
  \/ QueryCompletes

SpecBar == Init /\ [][NextBar]_vars

\* ------------------------- viewport windower (ItemProperties.vue 225-327)

\* Math.floor(x / d) and Math.ceil(x / d) for a positive d.
Floor(x, d) == x \div d
Ceil(x, d) == 0 - ((0 - x) \div d)

\* The header row has the height of an item row: both are getSpacingSize("6").
headerHeight == itemHeight
virtualViewHeight == viewHeight - headerHeight
\* Rows' worth of pixels rendered beyond each edge of the viewport.
preloadPadding == itemHeight * 10

\* The half-open range [startIndex, endIndex) of rows to render.
indexRangeToRenderUnfloored ==
  LET renderTop == scrollTop - preloadPadding
      renderBottom == scrollTop + virtualViewHeight + preloadPadding
      itemsBeforeTop == Floor(renderTop, itemHeight)
      itemsUntilBottom == Ceil(renderBottom, itemHeight)
      actualItemsCount == Len(itemIds)
      startIndex == Min2(itemsBeforeTop - 1, actualItemsCount)
      endIndex == Max2(0, Min2(itemsUntilBottom, actualItemsCount))
  IN <<startIndex, endIndex>>

\* A faulty windower that adds the preload to the top edge instead of taking
\* it off; C38 must tell it from the real one.
indexRangeToRenderPreloadInside ==
  LET renderTop == scrollTop + preloadPadding
      renderBottom == scrollTop + virtualViewHeight + preloadPadding
      itemsBeforeTop == Floor(renderTop, itemHeight)
      itemsUntilBottom == Ceil(renderBottom, itemHeight)
      actualItemsCount == Len(itemIds)
      startIndex == Max2(0, Min2(itemsBeforeTop - 1, actualItemsCount))
      endIndex == Max2(0, Min2(itemsUntilBottom, actualItemsCount))
  IN <<startIndex, endIndex>>

\* A faulty windower that starts over from row 0 when the view lies below the
\* end of the list; C31 must tell it from the real one.
indexRangeToRenderRestarts ==
  LET renderTop == scrollTop - preloadPadding
      renderBottom == scrollTop + virtualViewHeight + preloadPadding
      itemsBeforeTop == Floor(renderTop, itemHeight)
      itemsUntilBottom == Ceil(renderBottom, itemHeight)
      actualItemsCount == Len(itemIds)
      startIndex == IF itemsBeforeTop - 1 > actualItemsCount THEN 0
                    ELSE Max2(0, itemsBeforeTop - 1)
      endIndex == Max2(0, Min2(itemsUntilBottom, actualItemsCount))
  IN <<startIndex, endIndex>>

indexRangeToRender ==
  LET renderTop == scrollTop - preloadPadding
      renderBottom == scrollTop + virtualViewHeight + preloadPadding
      itemsBeforeTop == Floor(renderTop, itemHeight)
      itemsUntilBottom == Ceil(renderBottom, itemHeight)
      actualItemsCount == Len(itemIds)
      startIndex == Max2(0, Min2(itemsBeforeTop - 1, actualItemsCount))
      endIndex == Max2(0, Min2(itemsUntilBottom, actualItemsCount))
  IN <<startIndex, endIndex>>

\* updateScrollPosition: the scroll event stores the container's scrollTop.
updateScrollPosition(offset) ==
  /\ scrollTop' = offset
  /\ UNCHANGED <<viewHeight, itemHeight>>
  /\ UNCHANGED <<clientVars, queries, fetches, issued>>
  /\ UNCHANGED dbVars
  /\ UNCHANGED barVars

\* updateViewSize: the resize observer stores the container's clientHeight.
updateViewSize(height) ==
  /\ viewHeight' = height
  /\ UNCHANGED <<scrollTop, itemHeight>>
  /\ UNCHANGED <<clientVars, queries, fetches, issued>>
  /\ UNCHANGED dbVars
  /\ UNCHANGED barVars

\* Rows of the list in the specification of the windower.
MaxCount == 40
\* Scroll offsets are 0, ScrollStep, ..., MaxScrollStops * ScrollStep pixels.
ScrollStep == 13
MaxScrollStops == 10
\* View heights are 0, ViewStep, ..., MaxViewStops * ViewStep pixels.
ViewStep == 11
MaxViewStops == 3
\* Row heights: the root font size decides what 1.5rem is in pixels.
ItemHeights == {1, 7, DefaultItemHeight}

\* A view scrolled far down a long list: the rows' part of the view is 100px
\* high (the header row excluded) and starts 1000px down.
FarDown == [scrollTop |-> 1000, viewHeight |-> 100 + DefaultItemHeight]

ScrollStops == {k * ScrollStep : k \in 0..MaxScrollStops} \cup {FarDown.scrollTop}
ViewStops == {k * ViewStep : k \in 0..MaxViewStops} \cup {FarDown.viewHeight}

(* The windower over a listed repository: n rows, nothing selected, cached or
   in flight, the view not yet measured or scrolled. The windower reads the
   length of the list, the two refs and the row height. *)
InitWindow ==
  /\ path = "P1"
  /\ query = ""
  /\ queryIsInvalid = FALSE
  /\ \E n \in 0..MaxCount :
       /\ itemIds = [i \in 1..n |-> i]
       /\ dbLive = 1..n
       /\ itemCache = [id \in Ids \cup (1..n) |-> Undefined]
       /\ dbRev = [id \in Ids \cup (1..n) |-> 1]
  /\ itemIdSelection = NoSelection
  /\ queries = EmptyBag
  /\ fetches = EmptyBag
  /\ issued = 0
  /\ dbGone = {}
  /\ scrollTop = 0
  /\ viewHeight = 0
  /\ itemHeight \in ItemHeights
  /\ queryText = ""
  /\ searchTimerId = NoTimer
  /\ timers = {}

\* Scrolling, resizing, and item-removed shortening the list under the scroll.
NextWindow ==
  \/ \E offset \in ScrollStops : updateScrollPosition(offset)
  \/ \E height \in ViewStops : updateViewSize(height)
  \/ \E id \in Ids, evtId \in EvtIds : ItemRemoved(id, evtId)

SpecWindow == InitWindow /\ [][NextWindow]_vars

\* ------------------------------------------------------------- claims

\* The step in which the call leaves the bag of queries in flight: its answer
\* has reached the handler that awaited it (or the catch branch).
Completes(call) == BagIn(call, queries) /\ queries' = queries (-) One(call)

\* Number of getItemDetails calls in flight for the id.
FetchesInFlight(id) ==
  LET S == {c \in BagToSet(fetches) : c.id = id}
  IN BagCardinality([c \in S |-> fetches[c]])

\* C1: with a repository open, once the query for the current (accepted) text
\* has resolved, the late result of a query for a superseded text is discarded:
\* it does not change the result list.
C1_LateResultDiscarded ==
  [][\A call \in BagToSet(queries) :
       ( /\ Completes(call)
         /\ call.by = "queryWatch"
         /\ call.st = "ok"
         /\ call.text # query
         /\ path # NoPath
         /\ ~QueryIsMalformed(query)
         /\ ~\E other \in BagToSet(queries) : other.by = "queryWatch" /\ other.text = query )
       => itemIds' = itemIds]_vars

\* C2: a query result that resolves after item-removed(id) was applied does not
\* bring id back: after any query resolves, the result list holds no removed id.
C2_ResolveKeepsRemovedOut ==
  [][\A call \in BagToSet(queries) :
       (Completes(call) /\ call.st = "ok")
       => \A id \in dbGone : id \notin Elems(itemIds')]_vars

\* C3: for every item id, at most one getItemDetails(id) call is in flight.
C3_OneFetchPerId == \A id \in Ids : FetchesInFlight(id) <= 1

\* C4: when the query of a setQuery cycle resolves and is applied, the result
\* list is the returned list, the cache has no entries and the selection is
\* empty, whatever the selection was while the query was in flight.
C4_QueryCycleApplied ==
  [][\A call \in BagToSet(queries) :
       (Completes(call) /\ call.by = "queryWatch" /\ call.st = "ok")
       => /\ itemIds' = call.ids
          /\ itemCache' = EmptyCache
          /\ itemIdSelection' = NoSelection]_vars

\* C4's case: the answer of a setQuery cycle is about to be applied while the
\* cache has an entry, a selection exists and the answer differs from the list.
C4_Case ==
  \E call \in BagToSet(queries) :
    /\ call.by = "queryWatch" /\ call.st = "ok"
    /\ call.ids # itemIds
    /\ itemCache # EmptyCache
    /\ itemIdSelection # NoSelection

\* C5: when the backend rejects the query of a setQuery cycle, the result list,
\* the cache and the selection stay exactly as they were and queryIsInvalid
\* becomes true.
C5_RejectedQueryLeavesState ==
  [][\A call \in BagToSet(queries) :
       (Completes(call) /\ call.by = "queryWatch" /\ call.st = "err")
       => /\ itemIds' = itemIds
          /\ itemCache' = itemCache
          /\ itemIdSelection' = itemIdSelection
          /\ queryIsInvalid' = TRUE]_vars

\* C5's case: a rejected setQuery cycle is about to complete while the list, the
\* cache and the selection are non-empty and the flag is still down.
C5_Case ==
  \E call \in BagToSet(queries) :
    /\ call.by = "queryWatch" /\ call.st = "err"
    /\ itemIds # <<>>
    /\ itemCache # EmptyCache
    /\ itemIdSelection # NoSelection
    /\ ~queryIsInvalid

\* C6: when the repository path changes to null, no backend query is issued and
\* the result list becomes empty.
C6_NullPathEmptiesList ==
  [][(path # NoPath /\ path' = NoPath)
     => /\ itemIds' = <<>>
        /\ queries' = queries
        /\ issued' = issued]_vars

\* C6's case: the path is null again and the list is empty, although the cache
\* still holds details of an item that was listed and no item was deleted.
C6_Case ==
  /\ path = NoPath
  /\ itemIds = <<>>
  /\ itemCache # EmptyCache
  /\ dbGone = {}

\* C7: when the requery started by a path change resolves and replaces the
\* result list, the selection is empty in the resulting state.
C7_PathRequeryClearsSelection ==
  [][\A call \in BagToSet(queries) :
       (Completes(call) /\ call.by = "pathWatch" /\ call.st = "ok")
       => itemIdSelection' = NoSelection]_vars

\* C8: every completed path change, a change to null included, leaves the cache
\* with no entries.
C8_PathChangeClearsCache ==
  [][/\ (path # NoPath /\ path' = NoPath) => itemCache' = EmptyCache
     /\ \A call \in BagToSet(queries) :
          (Completes(call) /\ call.by = "pathWatch" /\ call.st = "ok")
          => itemCache' = EmptyCache]_vars

\* C9: an item-added event re-runs the current query, and when that query
\* resolves the result list is replaced by the result while every cache entry
\* stays as it was.
C9_ItemAddedKeepsCache ==
  [][/\ (dbLive' # dbLive /\ dbLive \subseteq dbLive')
          => queries' = queries (+) One(QueryCall("itemAdded", query))
     /\ \A call \in BagToSet(queries) :
          (Completes(call) /\ call.by = "itemAdded" /\ call.st = "ok")
          => /\ itemIds' = call.ids
             /\ itemCache' = itemCache]_vars

\* C9's case: the answer of an item-added requery is about to replace a
\* different list while the cache has an entry.
C9_Case ==
  \E call \in BagToSet(queries) :
    /\ call.by = "itemAdded" /\ call.st = "ok"
    /\ call.ids # itemIds
    /\ itemCache # EmptyCache

\* C10: item-removed(id) with id in the result list leaves the list with id
\* deleted and all other ids in their previous relative order.
C10_RemovedFromList ==
  [][\A id \in dbLive :
       (id \notin dbLive' /\ id \in Elems(itemIds))
       => itemIds' = SelectSeq(itemIds, LAMBDA x : x # id)]_vars

\* C10's case: a list of three whose middle item can be deleted.
C10_Case == Len(itemIds) = 3 /\ itemIds[2] \in dbLive


\* C11: item-removed(id) for an id that is not in the result list changes
\* nothing: the list, the cache and the selection stay as they were.
C11_RemoveAbsentIsNoOp ==
  [][\A id \in dbLive :
       (id \notin dbLive' /\ id \notin Elems(itemIds))
       => /\ itemIds' = itemIds
          /\ itemCache' = itemCache
          /\ itemIdSelection' = itemIdSelection]_vars

\* C12: an item-renamed or tag event, single or batch, writes the new details
\* of each of its items into the cache and leaves the entries of all other
\* ids, the result list and the selection as they were.
C12_DetailEventOverwritesEntry ==
  [][dbRev' # dbRev
     => /\ \A id \in Ids : itemCache'[id] = IF dbRev'[id] # dbRev[id]
                                            THEN dbRev'[id] ELSE itemCache[id]
        /\ itemIds' = itemIds
        /\ itemIdSelection' = itemIdSelection]_vars

\* C12's case: with rows listed and one selected, events have written the
\* entries of items 1 and 2, one after the other.
C12_Case ==
  /\ itemIds # <<>>
  /\ itemIdSelection # NoSelection
  /\ itemCache[1] = 2
  /\ itemCache[2] = 2
  /\ itemCache[3] = Undefined

\* C13: when the requery of a repo-resynced event resolves, the result list is
\* the result, the cache has no entries and the selection is empty.
C13_ResyncApplied ==
  [][\A call \in BagToSet(queries) :
       (Completes(call) /\ call.by = "resynced" /\ call.st = "ok")
       => /\ itemIds' = call.ids
          /\ itemCache' = EmptyCache
          /\ itemIdSelection' = NoSelection]_vars

\* C13's case: the answer of a resync is about to replace a different list
\* while the cache has an entry and a row is selected.
C13_Case ==
  \E call \in BagToSet(queries) :
    /\ call.by = "resynced" /\ call.st = "ok"
    /\ call.ids # itemIds
    /\ itemIds # <<>>
    /\ itemCache # EmptyCache
    /\ itemIdSelection # NoSelection

\* The set of selected positions, and a sequence with no element twice.
PositionSet(selection) == Elems(selectedIndexes(selection))
NoDuplicates(s) == \A i, j \in 1..Len(s) : s[i] = s[j] => i = j

\* C14: the selection is null, a range, or a separate selection with at least
\* one member; removing the last member leaves null, never a separate
\* selection with no members.
C14_NoEmptySeparate ==
  itemIdSelection.type = "separate" => Len(itemIdSelection.indexes) >= 1

\* C15: over a list that stays as it is, whatever isolate, add, remove,
\* extendTo and addTo calls were made with positions of the list, no position is
\* selected twice and every selected position is a position of the list.
C15_SelectedPositionsValid ==
  /\ NoDuplicates(selectedIndexes(itemIdSelection))
  /\ PositionSet(itemIdSelection) \subseteq Positions

\* C15's case: every row of a list of MaxRows rows is selected, the last ones
\* merged in by addTo on a separate selection.
C15_Case ==
  /\ Len(itemIds) = MaxRows
  /\ itemIdSelection.type = "separate"
  /\ PositionSet(itemIdSelection) = Positions
  /\ itemIdSelection.indexes[1] = 2

\* C16: add(position) on a selection that holds the position throws, and the
\* selection stays as it was.
C16_AddSelectedThrows ==
  \A p \in PositionSet(itemIdSelection) :
    /\ add(itemIdSelection, p) = Thrown
    /\ OrUnchanged(add(itemIdSelection, p), itemIdSelection) = itemIdSelection

\* C16's case: a range over more than one row, any of which add would refuse.
C16_Case ==
  /\ itemIdSelection.type = "range"
  /\ itemIdSelection.rootIndex > itemIdSelection.extendToIndex

\* C17: add(p) on no selection gives the separate selection of p alone; on a
\* range or separate selection without p it gives a separate selection of the
\* previous positions plus p, each once more than before, with lastToggledIndex p.
C17_AddAppends ==
  \A p \in Positions :
    LET r == add(itemIdSelection, p)
    IN /\ itemIdSelection = NoSelection
            => r = [type |-> "separate", indexes |-> <<p>>, lastToggledIndex |-> p]
       /\ (itemIdSelection # NoSelection /\ p \notin PositionSet(itemIdSelection))
            => /\ r.type = "separate"
               /\ Elems(r.indexes) = PositionSet(itemIdSelection) \cup {p}
               /\ Len(r.indexes) = Len(selectedIndexes(itemIdSelection)) + 1
               /\ r.lastToggledIndex = p

\* C17's case: addTo(2) on no selection, then add(4).
C17_Case ==
  itemIdSelection = [type |-> "separate", indexes |-> <<0, 1, 2, 4>>, lastToggledIndex |-> 4]

\* C18: addTo(e) on a range over small..large gives a separate selection of
\* exactly the positions min(small, e)..max(large, e), each once, with
\* lastToggledIndex e; with e inside the range the positions are the range's.
C18_AddToRange ==
  itemIdSelection.type = "range" =>
    \A e \in Positions :
      LET small == Min2(itemIdSelection.rootIndex, itemIdSelection.extendToIndex)
          large == Max2(itemIdSelection.rootIndex, itemIdSelection.extendToIndex)
          r == addTo(itemIdSelection, e)
      IN /\ r.type = "separate"
         /\ Elems(r.indexes) = Min2(small, e)..Max2(large, e)
         /\ NoDuplicates(r.indexes)
         /\ r.lastToggledIndex = e
         /\ (small <= e /\ e <= large) => Elems(r.indexes) = small..large

\* C18's case: addTo(0) on the range 2..3 has appended rows 0 and 1.
C18_Case ==
  itemIdSelection = [type |-> "separate", indexes |-> <<2, 3, 0, 1>>, lastToggledIndex |-> 0]

\* C19: addTo(e) on a separate selection with lastToggledIndex a gives a
\* separate selection that keeps the previous members, adds every position
\* between a and e that was missing, holds no position twice, and has
\* lastToggledIndex e.
C19_AddToSeparate ==
  itemIdSelection.type = "separate" =>
    \A e \in Positions :
      LET a == itemIdSelection.lastToggledIndex
          old == itemIdSelection.indexes
          r == addTo(itemIdSelection, e)
      IN /\ r.type = "separate"
         /\ Elems(r.indexes) = Elems(old) \cup (Min2(a, e)..Max2(a, e))
         /\ NoDuplicates(r.indexes)
         /\ SubSeq(r.indexes, 1, Len(old)) = old
         /\ r.lastToggledIndex = e

\* C19's case: isolate(0), add(4), then addTo(2) has merged rows 2 and 3.
C19_Case ==
  itemIdSelection = [type |-> "separate", indexes |-> <<0, 4, 2, 3>>, lastToggledIndex |-> 2]

\* C20: on no selection, addTo(p) and extendTo(p) both give the range with
\* rootIndex 0 and extendToIndex p.
C20_FirstRangeFromZero ==
  itemIdSelection = NoSelection =>
    \A p \in Positions :
      /\ addTo(itemIdSelection, p) = [type |-> "range", rootIndex |-> 0, extendToIndex |-> p]
      /\ extendTo(itemIdSelection, p) = [type |-> "range", rootIndex |-> 0, extendToIndex |-> p]

\* C20's case: the first shift-click, on row 3.
C20_Case ==
  itemIdSelection = [type |-> "range", rootIndex |-> 0, extendToIndex |-> 3]

\* C21: remove(position) throws, and the selection stays as it was, when there
\* is no selection or the position is not selected.
C21_RemoveUnselectedThrows ==
  \A p \in Positions \ PositionSet(itemIdSelection) :
    /\ remove(itemIdSelection, p) = Thrown
    /\ OrUnchanged(remove(itemIdSelection, p), itemIdSelection) = itemIdSelection

\* C21's case: a separate selection of rows 3 and 1 in a list of five; remove
\* would refuse rows 0, 2 and 4.
C21_Case ==
  /\ Len(itemIds) = 5
  /\ itemIdSelection = [type |-> "separate", indexes |-> <<3, 1>>, lastToggledIndex |-> 1]

\* C22: remove(p) on a range holding p gives a separate selection of exactly the
\* range's positions without p; on a separate selection holding p it gives the
\* same members without p, the others kept in their order.
C22_RemoveTakesOneOut ==
  \A p \in PositionSet(itemIdSelection) :
    LET old == selectedIndexes(itemIdSelection)
        r == remove(itemIdSelection, p)
    IN /\ r.type = "separate"
       /\ Elems(r.indexes) = Elems(old) \ {p}
       /\ Len(r.indexes) = Len(old) - 1
       /\ itemIdSelection.type = "separate"
            => r.indexes = SelectSeq(old, LAMBDA x : x # p)

\* C22's case: remove(2) on the range 0..3.
C22_Case ==
  itemIdSelection = [type |-> "separate", indexes |-> <<0, 1, 3>>, lastToggledIndex |-> 2]

\* C23: extendTo(p) on a range keeps rootIndex and sets extendToIndex to p; on a
\* separate selection it gives the range from lastToggledIndex to p.
C23_ExtendToKeepsRoot ==
  \A p \in Positions :
    /\ itemIdSelection.type = "range"
         => extendTo(itemIdSelection, p)
              = [type |-> "range", rootIndex |-> itemIdSelection.rootIndex, extendToIndex |-> p]
    /\ itemIdSelection.type = "separate"
         => extendTo(itemIdSelection, p)
              = [type |-> "range", rootIndex |-> itemIdSelection.lastToggledIndex,
                 extendToIndex |-> p]

\* C23's case: isolate(1), extendTo(3), extendTo(0): rows 0 and 1, root still 1.
C23_Case ==
  /\ itemIdSelection = [type |-> "range", rootIndex |-> 1, extendToIndex |-> 0]
  /\ selectedIndexes(itemIdSelection) = <<0, 1>>

\* C24: remove(p) and then add(p) on a range give a separate selection of the
\* range's positions, and add, remove and addTo never turn a separate selection
\* into a range.
C24_SeparateStaysSeparate ==
  /\ itemIdSelection.type = "range"
       => \A p \in PositionSet(itemIdSelection) :
            LET back == add(remove(itemIdSelection, p), p)
            IN /\ back.type = "separate"
               /\ Elems(back.indexes) = PositionSet(itemIdSelection)
  /\ itemIdSelection.type = "separate"
       => \A p \in Positions :
            /\ add(itemIdSelection, p) \in {Thrown} \/ add(itemIdSelection, p).type = "separate"
            /\ remove(itemIdSelection, p) \in {Thrown} \/ remove(itemIdSelection, p).type = "separate"
            /\ addTo(itemIdSelection, p).type = "separate"

\* C24's case: remove(2) and add(2) on the range 0..3.
C24_Case ==
  itemIdSelection = [type |-> "separate", indexes |-> <<0, 1, 3, 2>>, lastToggledIndex |-> 2]

\* C25: contains(p) holds exactly when p is among the selected positions.
C25_ContainsIsMembership ==
  \A p \in 0..MaxRows :
    contains(itemIdSelection, p) <=> \E i \in 1..Len(selectedIndexes(itemIdSelection)) :
                                       selectedIndexes(itemIdSelection)[i] = p

\* C25's case: a range of three rows or more, neither end at row 0.
C25_Case ==
  /\ itemIdSelection.type = "range"
  /\ itemIdSelection.extendToIndex - itemIdSelection.rootIndex >= 2
  /\ itemIdSelection.rootIndex >= 1

\* x brought into lo..hi.
Clamp(x, lo, hi) == Max2(lo, Min2(x, hi))

\* C26 as claimed: isolateDown with the focus on the last row, and isolateUp
\* with the focus on row 0, leave the selection exactly as it was.
C26_BoundaryIsNoOp ==
  (Len(itemIds) >= 1 /\ itemIdSelection # NoSelection) =>
    /\ Focus(itemIdSelection) = Len(itemIds) - 1
         => isolateDown(itemIdSelection, Len(itemIds)) = itemIdSelection
    /\ Focus(itemIdSelection) = 0
         => isolateUp(itemIdSelection, Len(itemIds)) = itemIdSelection

\* C26 as amended: isolateDown with the focus on the last row, and isolateUp
\* with the focus on row 0, keep the focus where it is and give the separate
\* selection of that row alone, so the selection is unchanged only if it
\* already was that.
C26_BoundaryKeepsFocus ==
  (Len(itemIds) >= 1 /\ itemIdSelection # NoSelection) =>
    LET last == Len(itemIds) - 1
        down == isolateDown(itemIdSelection, Len(itemIds))
        up == isolateUp(itemIdSelection, Len(itemIds))
    IN /\ Focus(itemIdSelection) = last
            => /\ down = [type |-> "separate", indexes |-> <<last>>, lastToggledIndex |-> last]
               /\ Focus(down) = Focus(itemIdSelection)
       /\ Focus(itemIdSelection) = 0
            => /\ up = [type |-> "separate", indexes |-> <<0>>, lastToggledIndex |-> 0]
               /\ Focus(up) = Focus(itemIdSelection)

\* C26's case: the range 2..4 of a list of five, the focus on the last row.
C26_Case ==
  /\ Len(itemIds) = 5
  /\ itemIdSelection = [type |-> "range", rootIndex |-> 2, extendToIndex |-> 4]

\* C27: with rows listed and a range or separate selection focused on f,
\* isolateDown and isolateUp give isolate of f+1 and f-1 brought into
\* 0..n-1, extendDown and extendUp give extendTo of the same positions, and
\* the focus is a row of the list afterwards.
C27_KeysStepWithinList ==
  (Len(itemIds) >= 1 /\ itemIdSelection # NoSelection) =>
    LET n == Len(itemIds)
        f == Focus(itemIdSelection)
        below == Clamp(f + 1, 0, n - 1)
        above == Clamp(f - 1, 0, n - 1)
    IN /\ isolateDown(itemIdSelection, n) = isolate(below)
       /\ isolateUp(itemIdSelection, n) = isolate(above)
       /\ extendDown(itemIdSelection, n) = extendTo(itemIdSelection, below)
       /\ extendUp(itemIdSelection, n) = extendTo(itemIdSelection, above)
       /\ Focus(isolateDown(itemIdSelection, n)) \in 0..(n - 1)
       /\ Focus(isolateUp(itemIdSelection, n)) \in 0..(n - 1)
       /\ Focus(extendDown(itemIdSelection, n)) \in 0..(n - 1)
       /\ Focus(extendUp(itemIdSelection, n)) \in 0..(n - 1)

\* C28 as claimed: with rows listed and no selection, the keys step from row 0
\* (down) or from the last row (up): isolateDown and isolateUp give isolate,
\* extendDown and extendUp give extendTo, of the stepped position brought into
\* 0..n-1.
C28_EmptyStepsFromEnds ==
  (Len(itemIds) >= 1 /\ itemIdSelection = NoSelection) =>
    LET n == Len(itemIds)
        below == Clamp(0 + 1, 0, n - 1)
        above == Clamp((n - 1) - 1, 0, n - 1)
    IN /\ isolateDown(itemIdSelection, n) = isolate(below)
       /\ isolateUp(itemIdSelection, n) = isolate(above)
       /\ extendDown(itemIdSelection, n) = extendTo(itemIdSelection, below)
       /\ extendUp(itemIdSelection, n) = extendTo(itemIdSelection, above)

\* C28 as amended: with rows listed and no selection, isolateDown and
\* extendDown both give the separate selection of row 0 alone, and isolateUp
\* and extendUp both that of the last row alone.
C28_EmptySelectsEndRow ==
  (Len(itemIds) >= 1 /\ itemIdSelection = NoSelection) =>
    LET n == Len(itemIds)
        first == [type |-> "separate", indexes |-> <<0>>, lastToggledIndex |-> 0]
        last == [type |-> "separate", indexes |-> <<n - 1>>, lastToggledIndex |-> n - 1]
    IN /\ isolateDown(itemIdSelection, n) = first
       /\ extendDown(itemIdSelection, n) = first
       /\ isolateUp(itemIdSelection, n) = last
       /\ extendUp(itemIdSelection, n) = last

\* C28's case: the Up key on a list of four with no selection.
C28_Case ==
  /\ Len(itemIds) = 4
  /\ itemIdSelection = [type |-> "separate", indexes |-> <<3>>, lastToggledIndex |-> 3]

\* C29: on a list of one row or more, selectAll() leaves a range selection of
\* exactly the positions of the list, whatever the selection was.
C29_SelectAllCoversList ==
  Len(itemIds) >= 1 =>
    LET after == OrUnchanged(selectAll, itemIdSelection)
    IN /\ after.type = "range"
       /\ PositionSet(after) = Positions

(* C30: the windower's range is
   start = clamp(floor((scrollTop - preloadPadding) / itemHeight) - 1, 0, count)
   and end = clamp(ceil((scrollTop + virtualViewHeight + preloadPadding) /
   itemHeight), 0, count), and 0 <= start <= end <= count, also when the list
   has become shorter than the scroll offset reaches.  Floor and ceiling are
   told by their defining inequalities. *)
C30_WindowWithinList ==
  LET count == Len(itemIds)
      top == scrollTop - preloadPadding
      bottom == scrollTop + virtualViewHeight + preloadPadding
      Quotients == (0 - 11)..(scrollTop + viewHeight + 11)
      start == indexRangeToRender[1]
      end == indexRangeToRender[2]
  IN /\ \E f \in Quotients :
          /\ f * itemHeight <= top
          /\ top < (f + 1) * itemHeight
          /\ start = Clamp(f - 1, 0, count)
     /\ \E c \in Quotients :
          /\ (c - 1) * itemHeight < bottom
          /\ bottom <= c * itemHeight
          /\ end = Clamp(c, 0, count)
     /\ 0 <= start
     /\ start <= end
     /\ end <= count

\* Rows were removed and the scroll offset now lies below the end of the list.
C30_Case ==
  /\ dbGone # {}
  /\ Len(itemIds) >= 1
  /\ scrollTop > Len(itemIds) * itemHeight + preloadPadding
  /\ indexRangeToRender = <<Len(itemIds), Len(itemIds)>>

\* The list has three rows of 24px left, and the view is still far down.
FarDownOfThree ==
  /\ Len(itemIds) = 3
  /\ itemHeight = 24
  /\ scrollTop = 1000
  /\ virtualViewHeight = 100
  /\ preloadPadding = 240

\* C31 as claimed: with 3 rows of 24px, scrolled to 1000px, 100px of rows in
\* view and 240px of preload, the window is start = 0, end = 3.
C31_FarDownShowsAll == FarDownOfThree => indexRangeToRender = <<0, 3>>

(* C31: with 3 rows of 24px, scrolled to 1000px, 100px of rows in view and
   240px of preload, the window is start = 3, end = 3: empty, and within the
   list. *)
C31_FarDownShowsNone == FarDownOfThree => indexRangeToRender = <<3, 3>>

\* Rows were removed, three are left, and the view is still far down.
C31_Case == FarDownOfThree /\ dbGone # {}

\* A step in which the pending search timer fires.
TimerFiresNow == searchTimerId # NoTimer /\ searchTimerId' = NoTimer

\* A step in which the text of the input changes and setQuery is not called.
TextEdited == queryText' # queryText /\ query' = query

(* C32: at most one search timer is pending, and it carries the text of the
   most recent change; a change of the text cancels the pending timer, starts
   one and calls no setQuery; a timer that fires leaves none pending and calls
   setQuery once, with the text of the most recent change.  So a burst of
   changes ends in one setQuery call. *)
C32_Debounced ==
  /\ [](/\ Cardinality(timers) <= 1
        /\ \A t \in timers : t.id = searchTimerId /\ t.text = queryText
        /\ timers = {} <=> searchTimerId = NoTimer)
  /\ [][/\ TextEdited =>
             /\ timers' = {[id |-> searchTimerId', text |-> queryText']}
             /\ timers' \cap timers = {}
             /\ queries' = queries
        /\ TimerFiresNow =>
             /\ timers' = {}
             /\ query' = queryText
             /\ queryText' = queryText
             /\ IF query' = query THEN queries' = queries
                ELSE queries' = queries (+) One(QueryCall("queryWatch", queryText))
       ]_vars

\* A second change of the text came while the timer of the first was pending,
\* and the timer of the second is about to fire with a text that is new.
C32_Case ==
  /\ searchTimerId = 2
  /\ timers = {[id |-> 2, text |-> queryText]}
  /\ queryText # query
  /\ CanCall

\* A step of the selection engine: the selection changes while the path stays
\* and no query completes (the two other ways a selection changes).
SelectionOperation ==
  /\ itemIdSelection' # itemIdSelection
  /\ path' = path
  /\ \A call \in BagToSet(queries) : ~Completes(call)

(* C33: an operation of the selection engine leaves the result list and the
   item detail cache as they are and issues no backend request: no call joins
   the queries or the detail fetches in flight. *)
C33_SelectionTouchesNothingElse ==
  [][SelectionOperation =>
       /\ itemIds' = itemIds
       /\ itemCache' = itemCache
       /\ queries' = queries
       /\ fetches' = fetches
       /\ issued' = issued]_vars

\* A selection exists over a list of two rows, the cache has an entry, and a
\* detail fetch is in flight: any selection operation may come now.
C33_Case ==
  /\ itemIdSelection # NoSelection
  /\ Len(itemIds) >= 2
  /\ itemCache # EmptyCache
  /\ fetches # EmptyBag

\* C34: in every reachable state of the whole engine, every selected position
\* is smaller than the length of the result list, also after item-removed has
\* shortened the list.
C34_SelectionWithinList ==
  \A position \in PositionSet(itemIdSelection) : position < Len(itemIds)

(* C35: a cache entry that holds the details of the latest item-renamed or tag
   event for its id keeps them until the next such event for the id or until
   the cache is cleared: a detail fetch that was in flight when the event came
   does not put the older record back. *)
C35_EventDetailsStay ==
  [][\A id \in Ids :
       (/\ dbRev[id] > 1
        /\ itemCache[id] = dbRev[id]
        /\ dbRev'[id] = dbRev[id]
        /\ itemCache'[id] # Undefined)
       => itemCache'[id] = itemCache[id]]_vars

(* C36: with a repository open, once no backend query is in flight, the
   invalid-query flag is true exactly when the backend rejects the current
   text state.query: a query for an older text that completes late does not
   leave its verdict in the flag. *)
C36_FlagTellsCurrentQuery ==
  (path # NoPath /\ queries = EmptyBag)
  => (queryIsInvalid <=> QueryIsMalformed(query))

\* The step in which the detail fetch leaves the bag of fetches in flight.
FetchCompletes(call) == BagIn(call, fetches) /\ fetches' = fetches (-) One(call)

(* C37: when a detail fetch resolves that was in flight while the cache was
   cleared, the cache of now does not get its result: the entry of the id is
   what it was (nothing, unless a later request or event has filled it). *)
C37_LateFetchMissesNewCache ==
  [][\A call \in BagToSet(fetches) :
       (call.stale /\ FetchCompletes(call))
       => itemCache'[call.id] = itemCache[call.id]]_vars

\* The answer of a fetch sent before the cache was cleared is about to arrive,
\* for a row of the list that the new cache has no entry for.
C37_Case ==
  \E call \in BagToSet(fetches) :
    /\ call.stale
    /\ call.st = "ok"
    /\ call.id \in Elems(itemIds)
    /\ itemCache[call.id] = Undefined

\* Row i occupies the pixels [i * itemHeight, (i + 1) * itemHeight); the rows'
\* part of the view shows [scrollTop, scrollTop + virtualViewHeight).
RowInView(i) ==
  /\ i * itemHeight < scrollTop + virtualViewHeight
  /\ scrollTop < (i + 1) * itemHeight

(* C38: when the view's height for rows is not negative, every row of the
   list of which a pixel is in view lies in the window: start <= i < end. *)
C38_RowsInViewAreRendered ==
  virtualViewHeight >= 0 =>
    \A i \in Positions :
      RowInView(i) => /\ indexRangeToRender[1] <= i
                      /\ i < indexRangeToRender[2]

\* Rows are in view while the window leaves out rows above and below.
C38_Case ==
  /\ virtualViewHeight > 0
  /\ \E i \in Positions : RowInView(i)
  /\ indexRangeToRender[1] > 0
  /\ indexRangeToRender[2] < Len(itemIds)

\* The positions from a to b, whichever is smaller.
Between(a, b) == Min2(a, b)..Max2(a, b)

(* C39: remove(p) of a selected position leaves p as the anchor
   lastToggledIndex, and p is no longer selected; extendTo(q) right after gives
   the range rooted at p that reaches q, and addTo(q) right after selects p
   again, together with everything between p and q, on top of what was left. *)
C39_RemovedRowIsAnchor ==
  \A p \in PositionSet(itemIdSelection) :
    LET r == remove(itemIdSelection, p)
    IN /\ r.type = "separate"
       /\ r.lastToggledIndex = p
       /\ p \notin PositionSet(r)
       /\ \A q \in Positions :
            /\ extendTo(r, q) = RangeSelection(p, q)
            /\ PositionSet(extendTo(r, q)) = Between(p, q)
            /\ PositionSet(addTo(r, q)) = PositionSet(r) \cup Between(p, q)
            /\ addTo(r, q).lastToggledIndex = q

\* A position was removed from a separate selection of the longest list: it is
\* the anchor, it is not selected, and rows are selected on both sides of it.
C39_Case ==
  /\ Len(itemIds) = MaxRows
  /\ itemIdSelection.type = "separate"
  /\ itemIdSelection.lastToggledIndex \notin PositionSet(itemIdSelection)
  /\ \E a, b \in PositionSet(itemIdSelection) :
       a < itemIdSelection.lastToggledIndex /\ itemIdSelection.lastToggledIndex < b

(* C40: when every backend call is answered and the cache is cleared finitely
   often, a row of the list that has no entry in the cache (it has asked for
   one when it was mounted, and asks again after each clear) gets its entry,
   unless the row leaves the list first. *)
C40_RenderedRowGetsDetails ==
  \A id \in Ids :
    (id \in Elems(itemIds) /\ itemCache[id] = Undefined)
    ~> (itemCache[id] # Undefined \/ id \notin Elems(itemIds))

\* The cache was cleared while the row's request was in flight, and the row
\* has asked again: the old and the new request are both in flight.
C40_Case ==
  \E id \in Elems(itemIds) :
    /\ itemCache[id] = Undefined
    /\ LiveFetch(id)
    /\ \E call \in BagToSet(fetches) : call.id = id /\ call.stale

====
